---------------------------- MODULE Spec2Model ----------------------------
(***************************************************************************)
(* Client of the hotel booking service: session store, route guards, API   *)
(* client and the handlers of the views that use them.                     *)
(*                                                                         *)
(*   Spec       the application: session, router, login page, API client   *)
(*   GuardSpec  the two route guards as functions of their props and of    *)
(*              the value useAuth() hands them                             *)
(*   DashSpec   the operator dashboard: its fetches and mutating handlers  *)
(*   OwnerSpec  the operator dashboard while a second login call resolves  *)
(*   UcSpec     the user center's booking records                          *)
(*   BookSpec   the two booking views, either one on screen                *)
(*   HomeSpec   the listing view's favorites, its hotel list loaded        *)
(*   ListSpec   the listing view's hotel list: searches and their answers  *)
(*   DetailSpec the hotel detail view and its booking dialog               *)
(*   BookingFormSpec  the booking form over any typed values               *)
(*   RegisterSpec     the registration form over any typed values          *)
(***************************************************************************)
EXTENDS Integers, Sequences, FiniteSets, Bags, TLC

(***************************************************************************)
(* Bounds                                                                  *)
(***************************************************************************)
MaxUserId == 2
MaxInFlight == 2
MaxActions == 2

(***************************************************************************)
(* Values                                                                  *)
(***************************************************************************)
Roles == {"user", "operator"}
UserIds == 1..MaxUserId
\* user: the identity useAuth() exposes, or null
NoUser == [id |-> 0, role |-> "none"]
Users == [id : UserIds, role : Roles]
\* localStorage.getItem('token'): null, the empty string, or a token
NoToken == "<null>"
IssuedTokens == {"t1", "t2"}
StoredTokens == {NoToken, ""} \cup IssuedTokens
\* the Authorization header of a request config, or none
NoHeader == "<none>"
\* requiredRole prop of ProtectedRoute; "none" is the omitted prop
RequiredRoles == {"none", "operator", "user"}
Paths == {"/", "/login", "/register", "/operator", "/user", "/hotel/:id"}
Pages == {"Home", "Login", "Register", "OperatorDashboard", "UserCenter", "HotelDetail"}
\* error.response?.data?.message of a rejected call; NoMessage is undefined
NoMessage == "<undefined>"
\* the errors a call rejects with: no response (network, timeout), a response
\* whose body carries a message, a response without one
Errors == {[response |-> FALSE, message |-> NoMessage],
           [response |-> TRUE, message |-> "m1"],
           [response |-> TRUE, message |-> NoMessage]}
NoError == [response |-> FALSE, message |-> "<no error>"]

(***************************************************************************)
(* State                                                                   *)
(***************************************************************************)
VARIABLES
    user,       \* AuthContext: the current identity, NoUser when absent
    loading,    \* AuthContext: rehydration in flight
    token,      \* localStorage 'token'
    lastAuth,   \* the last login/logout call made on the session store since page load
    path,       \* router location
    trail,      \* the elements returned by the route elements of the last render pass
    net,        \* the bag of requests sent through the api client and in flight
    loginError, \* Login: error state
    calls,      \* the calls the last Login.onSubmit continuation made, in order
    probe,      \* GuardSpec: the last guard evaluation
    dash,       \* OperatorDashboard: its lists, fetches, handler invocations, snackbar
    uc,         \* UserCenter: its booking list, fetches, cancel invocations, snackbar
    home,       \* Home: its favorites, fetches, toggle invocations, snackbar
    server,     \* the backend: booking statuses, hotels, the session's favorites
    detail,     \* HotelDetail: its hotel, booking dialog and form, submissions, snackbar
    reg         \* Register: its form, submissions, error and success texts

vars == <<user, loading, token, lastAuth, path, trail, net, loginError, calls, probe,
          dash, uc, home, server, detail, reg>>

(***************************************************************************)
(* Route guards (components/ProtectedRoute.tsx)                            *)
(***************************************************************************)
Progress == [kind |-> "Progress", to |-> "", page |-> ""]
NavigateTo(to) == [kind |-> "Navigate", to |-> to, page |-> ""]
Children(page) == [kind |-> "Children", to |-> "", page |-> page]

\* the value of useAuth() the guards destructure
UseAuth == [user |-> user, loading |-> loading]

\* ProtectedRoute without its requiredRole check
ProtectedRouteNoRoleCheck(children, requiredRole, auth) ==
    IF auth.loading THEN Progress
    ELSE IF auth.user = NoUser THEN NavigateTo("/login")
    ELSE Children(children)

\* ProtectedRoute sending an absent session to "/" instead of "/login"
ProtectedRouteAbsentToRoot(children, requiredRole, auth) ==
    IF auth.loading THEN Progress
    ELSE IF auth.user = NoUser THEN NavigateTo("/")
    ELSE IF requiredRole # "none" /\ auth.user.role # requiredRole THEN NavigateTo("/")
    ELSE Children(children)

ProtectedRoute(children, requiredRole, auth) ==
    IF auth.loading THEN Progress
    ELSE IF auth.user = NoUser THEN NavigateTo("/login")
    ELSE IF requiredRole # "none" /\ auth.user.role # requiredRole
         THEN IF requiredRole = "operator" THEN NavigateTo("/")
              ELSE IF requiredRole = "user" THEN NavigateTo("/")
              ELSE Children(children)
    ELSE Children(children)

\* PublicRoute testing user before loading
PublicRouteUserFirst(children, auth) ==
    IF auth.user # NoUser
    THEN NavigateTo(IF auth.user.role = "operator" THEN "/operator" ELSE "/")
    ELSE IF auth.loading THEN Progress
    ELSE Children(children)

\* PublicRoute sending every session to "/"
PublicRouteToRoot(children, auth) ==
    IF auth.loading THEN Progress
    ELSE IF auth.user # NoUser THEN NavigateTo("/")
    ELSE Children(children)

PublicRoute(children, auth) ==
    IF auth.loading THEN Progress
    ELSE IF auth.user # NoUser
         THEN NavigateTo(IF auth.user.role = "operator" THEN "/operator" ELSE "/")
    ELSE Children(children)

(***************************************************************************)
(* Routes (App.tsx)                                                        *)
(***************************************************************************)
RouteElement(p, auth) ==
    CASE p = "/"          -> Children("Home")
      [] p = "/login"     -> PublicRoute("Login", auth)
      [] p = "/register"  -> PublicRoute("Register", auth)
      [] p = "/operator"  -> ProtectedRoute("OperatorDashboard", "operator", auth)
      [] p = "/user"      -> ProtectedRoute("UserCenter", "none", auth)
      [] p = "/hotel/:id" -> Children("HotelDetail")

\* One render pass: the element of the route at p; a <Navigate replace> moves the
\* location and the route there renders in turn.
RECURSIVE RenderPass(_, _, _)
RenderPass(p, auth, seen) ==
    LET e == RouteElement(p, auth)
        step == [at |-> p, el |-> e]
    IN
    IF e.kind = "Navigate" /\ Len(seen) < 3
    THEN RenderPass(e.to, auth, Append(seen, step))
    ELSE Append(seen, step)

Last(s) == s[Len(s)]
\* the page on screen, "" while a guard shows the wait indicator
Shown == Last(trail).el.page

\* the router re-renders after a change of the location or of the session
Rerender(p, auth) ==
    /\ trail' = RenderPass(p, auth, <<>>)
    /\ path' = Last(trail').at


(***************************************************************************)
(* API client (utils/api.ts)                                               *)
(***************************************************************************)
\* JavaScript truthiness of a string-or-null
Truthy(t) == t # NoToken /\ t # ""

\* the interceptor testing token !== null instead of its truthiness
RequestInterceptorNotNull(config) ==
    LET t == token
    IN IF t # NoToken THEN [config EXCEPT !.auth = "Bearer " \o t] ELSE config

\* the interceptor returning the config without setting the header
RequestInterceptorNoHeader(config) == config

\* the interceptor setting the header without testing the token
RequestInterceptorAlways(config) ==
    LET t == token
    IN [config EXCEPT !.auth = "Bearer " \o t]

RequestInterceptor(config) ==
    LET t == token
    IN IF Truthy(t) THEN [config EXCEPT !.auth = "Bearer " \o t] ELSE config

\* the error handler rejecting with a new error that drops the response
ResponseErrorInterceptorRewrap(error) == [response |-> FALSE, message |-> NoMessage]

ResponseErrorInterceptor(error) == error

\* the request api.<method>(url) puts on the wire
ApiRequest(method, url) ==
    RequestInterceptor([method |-> method, url |-> url, auth |-> NoHeader])

InFlight == BagToSet(net)
Send(r) == net (+) SetToBag({r})
Settle(r) == net (-) SetToBag({r})

(***************************************************************************)
(* The backend the views talk to, and the views' initial local state       *)
(***************************************************************************)
RecordIds == {1, 2}
Statuses == {"pending", "confirmed", "cancelled", "completed"}

\* the records the backend holds: every booking is for hotel 1, hotel h carries
\* operatorId h
HotelOf(b) == 1
OperatorOf(h) == h
Owns(u, h) == u.role = "operator" /\ OperatorOf(h) = u.id

NoServer == [status |-> [b \in RecordIds |-> "pending"], hotels |-> RecordIds, favorites |-> {}]
\* what a view can find when it mounts: booking 1 awaits handling, the other
\* bookings are in any status
Servers == [status : {f \in [RecordIds -> Statuses] : f[1] = "pending"}, hotels : {RecordIds},
            favorites : {{}}]

RECURSIVE Ascending(_)
Ascending(S) ==
    IF S = {} THEN <<>>
    ELSE LET m == CHOOSE x \in S : \A y \in S : x <= y
         IN <<m>> \o Ascending(S \ {m})

\* response.data of GET /hotels
HotelsResponse(srv) ==
    LET ids == Ascending(srv.hotels)
    IN [i \in 1..Len(ids) |-> [id |-> ids[i], operatorId |-> OperatorOf(ids[i])]]

\* response.data of GET /bookings/operator asked by u
OperatorBookingsResponse(srv, u) ==
    LET ids == Ascending({b \in RecordIds : Owns(u, HotelOf(b))})
    IN [i \in 1..Len(ids) |-> [id |-> ids[i], status |-> srv.status[ids[i]]]]

\* response.data of GET /bookings: the bookings the session's user made
UserBookingsResponse(srv) ==
    LET ids == Ascending(RecordIds)
    IN [i \in 1..Len(ids) |-> [id |-> ids[i], status |-> srv.status[ids[i]]]]

\* response.data of GET /favorites: the session's favorite hotels
FavoritesResponse(srv) ==
    LET ids == Ascending(srv.favorites)
    IN [i \in 1..Len(ids) |-> [id |-> ids[i]]]

\* what Home can find when it mounts: any set of favorites of the session
FavoriteServers == [status : {NoServer.status}, hotels : {RecordIds},
                    favorites : SUBSET RecordIds]

NoSnackbar == [open |-> FALSE, message |-> "", severity |-> "success"]

\* a view's handler invocations and fetches are bags: two presses of one button
\* are two invocations
NoDash == [tasks |-> EmptyBag, snackbar |-> NoSnackbar,
           hotels |-> <<>>, bookings |-> <<>>, fetches |-> EmptyBag]
NoUc == [tasks |-> EmptyBag, snackbar |-> NoSnackbar, tabValue |-> 0, loading |-> FALSE,
         favorites |-> <<>>, bookings |-> <<>>, fetches |-> EmptyBag]
\* answer: the outcome of the most recently issued fetchHotels call, once it has
\* arrived; console: the last error written by console.error
NoAnswer == [known |-> FALSE, list |-> <<>>]
NoHome == [tasks |-> EmptyBag, snackbar |-> NoSnackbar, favorites |-> <<>>, fetches |-> EmptyBag,
           hotels |-> <<>>, search |-> "", loading |-> FALSE, hotelFetches |-> EmptyBag,
           answer |-> NoAnswer, console |-> NoError]

\* HotelDetail before its mount: no hotel, the booking form at its initial values
NoDate == 0
MinGuests == 1
MaxGuests == 10
NoHotel == [id |-> 0, availableRooms |-> 0]
BookingInitialValues == [checkInDate |-> NoDate, checkOutDate |-> NoDate, guestCount |-> MinGuests]
NoDetail == [hotel |-> NoHotel, loading |-> TRUE, fetching |-> FALSE, error |-> "",
             openBookingDialog |-> FALSE, snackbar |-> NoSnackbar,
             values |-> BookingInitialValues, touched |-> FALSE, tasks |-> EmptyBag]

\* Register before its mount
RegisterInitialValues == [email |-> "", password |-> "", confirmPassword |-> "",
                          role |-> "user", registerCode |-> ""]
NoReg == [values |-> RegisterInitialValues, touched |-> FALSE, error |-> "", success |-> "",
          tasks |-> EmptyBag]

One(x) == SetToBag({x})
\* the bag with one copy of old replaced by new
Swap(bag, old, new) == (bag (-) One(old)) (+) One(new)

(***************************************************************************)
(* Session store (contexts/AuthContext)                                    *)
(***************************************************************************)

NoProbe == [gate |-> "none", children |-> "", requiredRole |-> "none",
            auth |-> [user |-> NoUser, loading |-> TRUE], el |-> Progress]

NoAuthCall == [op |-> "none", user |-> NoUser, token |-> NoToken]

login(u, t) ==
    /\ user' = u
    /\ token' = t
    /\ lastAuth' = [op |-> "login", user |-> u, token |-> t]

logout ==
    /\ user' = NoUser
    /\ token' = NoToken
    /\ lastAuth' = [op |-> "logout", user |-> NoUser, token |-> NoToken]

\* page load: the provider mounts and starts rehydrating from the persisted token
PageLoad(p) ==
    /\ user' = NoUser
    /\ loading' = TRUE
    /\ lastAuth' = NoAuthCall
    /\ net' = EmptyBag
    /\ loginError' = ""
    /\ calls' = <<>>
    /\ Rerender(p, [user |-> NoUser, loading |-> TRUE])

Init ==
    /\ user = NoUser
    /\ loading = TRUE
    /\ token \in StoredTokens
    /\ lastAuth = NoAuthCall
    /\ path \in Paths
    /\ trail = RenderPass(path, [user |-> NoUser, loading |-> TRUE], <<>>)
    /\ net = EmptyBag
    /\ loginError = ""
    /\ calls = <<>>
    /\ probe = NoProbe
    /\ dash = NoDash
    /\ uc = NoUc
    /\ detail = NoDetail
    /\ reg = NoReg
    /\ home = NoHome
    /\ server = NoServer

Reload(p) ==
    /\ PageLoad(p)
    /\ UNCHANGED <<token, probe, dash, uc, home, server, detail, reg>>

\* rehydration resolves to the identity the persisted token stands for
RehydrateOk(u) ==
    /\ loading
    /\ Truthy(token)
    /\ user' = u
    /\ loading' = FALSE
    /\ Rerender(path, [user |-> u, loading |-> FALSE])
    /\ UNCHANGED <<token, lastAuth, net, loginError, calls, probe, dash, uc, home, server, detail, reg>>

\* rehydration resolves to no session: nothing persisted, or the token is refused
RehydrateNone(clear) ==
    /\ loading
    /\ user' = NoUser
    /\ loading' = FALSE
    /\ token' = IF clear /\ Truthy(token) THEN NoToken ELSE token
    /\ Rerender(path, [user |-> NoUser, loading |-> FALSE])
    /\ UNCHANGED <<lastAuth, net, loginError, calls, probe, dash, uc, home, server, detail, reg>>

(***************************************************************************)
(* Navigation (App.tsx)                                                    *)
(***************************************************************************)
\* a link, navigate() or the history moves the location
Goto(p) ==
    /\ Rerender(p, UseAuth)
    /\ UNCHANGED <<user, loading, token, lastAuth, net, loginError, calls, probe, dash, uc, home, server, detail, reg>>

\* Navbar with the operator link shown to every session
NavbarAnyRole(auth) ==
    {"Home"} \cup
    (IF auth.loading THEN {}
     ELSE IF auth.user # NoUser
          THEN {"User Center", "Operator Dashboard", "Logout"}
          ELSE {"Login", "Register"})

\* Navbar: the entries it renders
Navbar(auth) ==
    {"Home"} \cup
    (IF auth.loading THEN {}
     ELSE IF auth.user # NoUser
          THEN {"User Center", "Logout"}
               \cup (IF auth.user.role = "operator" THEN {"Operator Dashboard"} ELSE {})
          ELSE {"Login", "Register"})

\* Navbar: the Logout button, shown when loading is over and a user is present
NavbarLogout ==
    /\ "Logout" \in Navbar(UseAuth)
    /\ logout
    /\ Rerender(path, [user |-> NoUser, loading |-> loading])
    /\ UNCHANGED <<loading, net, loginError, calls, probe, dash, uc, home, server, detail, reg>>

(***************************************************************************)
(* Login page (pages/Login.tsx)                                            *)
(***************************************************************************)
\* the post-login target without the role test
RoleHomeRoot(role) == "/"

RoleHome(role) == IF role = "operator" THEN "/operator" ELSE "/"

LoginFallback == "Login failed, incorrect username or password"

\* onSubmit up to its await
LoginSubmit ==
    /\ Shown = "Login"
    /\ BagCardinality(net) < MaxInFlight
    /\ net' = Send(ApiRequest("POST", "/auth/login"))
    /\ loginError' = ""
    /\ UNCHANGED <<user, loading, token, lastAuth, path, trail, calls, probe, dash, uc, home, server, detail, reg>>

\* onSubmit after its await, the call having succeeded with {token, user}
LoginResolve(r, u, t) ==
    /\ r \in InFlight
    /\ r.url = "/auth/login"
    /\ net' = Settle(r)
    /\ login(u, t)
    /\ Rerender(RoleHome(u.role), [user |-> u, loading |-> loading])
    /\ calls' = <<"login", "navigate">>
    /\ UNCHANGED <<loading, loginError, probe, dash, uc, home, server, detail, reg>>

\* onSubmit after its await, the call having failed
LoginReject(r, e) ==
    /\ r \in InFlight
    /\ r.url = "/auth/login"
    /\ net' = Settle(r)
    /\ LET err == ResponseErrorInterceptor(e)
       IN loginError' = IF err.message # NoMessage THEN err.message ELSE LoginFallback
    /\ calls' = <<>>
    /\ UNCHANGED <<user, loading, token, lastAuth, path, trail, probe, dash, uc, home, server, detail, reg>>

(***************************************************************************)
(* Fetches the views issue when they mount                                 *)
(***************************************************************************)
ViewEndpoints(page, u) ==
    CASE page = "Home" ->
            {"/hotels"} \cup (IF u # NoUser THEN {"/favorites"} ELSE {})
      [] page = "OperatorDashboard" -> {"/hotels", "/bookings/operator"}
      [] page = "UserCenter" -> {"/favorites", "/bookings"}
      [] page = "HotelDetail" -> {"/hotels/:id"}
      [] OTHER -> {}

ViewFetch(url) ==
    /\ url \in ViewEndpoints(Shown, user)
    /\ BagCardinality(net) < MaxInFlight
    /\ net' = Send(ApiRequest("GET", url))
    /\ UNCHANGED <<user, loading, token, lastAuth, path, trail, loginError, calls, probe, dash, uc, home, server, detail, reg>>

FetchSettle(r) ==
    /\ r \in InFlight
    /\ r.method = "GET"
    /\ net' = Settle(r)
    /\ UNCHANGED <<user, loading, token, lastAuth, path, trail, loginError, calls, probe, dash, uc, home, server, detail, reg>>

Next ==
    \/ \E p \in Paths : Reload(p)
    \/ \E u \in Users : RehydrateOk(u)
    \/ \E clear \in BOOLEAN : RehydrateNone(clear)
    \/ \E p \in Paths : Goto(p)
    \/ NavbarLogout
    \/ LoginSubmit
    \/ \E r \in InFlight, u \in Users, t \in IssuedTokens : LoginResolve(r, u, t)
    \/ \E r \in InFlight, e \in Errors : LoginReject(r, e)
    \/ \E url \in {"/hotels", "/favorites", "/bookings", "/bookings/operator", "/hotels/:id"} :
          ViewFetch(url)
    \/ \E r \in InFlight : FetchSettle(r)

Spec == Init /\ [][Next]_vars

(***************************************************************************)
(* The guards on their own: every prop and every useAuth() value           *)
(***************************************************************************)
AuthValues == [user : Users \cup {NoUser}, loading : BOOLEAN]

RenderProtectedRoute(children, requiredRole, auth) ==
    /\ probe' = [gate |-> "ProtectedRoute", children |-> children,
                 requiredRole |-> requiredRole, auth |-> auth,
                 el |-> ProtectedRoute(children, requiredRole, auth)]
    /\ UNCHANGED <<user, loading, token, lastAuth, path, trail, net, loginError, calls, dash, uc, home, server, detail, reg>>

RenderPublicRoute(children, auth) ==
    /\ probe' = [gate |-> "PublicRoute", children |-> children,
                 requiredRole |-> "none", auth |-> auth,
                 el |-> PublicRoute(children, auth)]
    /\ UNCHANGED <<user, loading, token, lastAuth, path, trail, net, loginError, calls, dash, uc, home, server, detail, reg>>

GuardNext ==
    \/ \E c \in Pages, rr \in RequiredRoles, a \in AuthValues : RenderProtectedRoute(c, rr, a)
    \/ \E c \in Pages, a \in AuthValues : RenderPublicRoute(c, a)

GuardSpec == Init /\ [][GuardNext]_vars

(***************************************************************************)
(* Operator dashboard (pages/OperatorDashboard.tsx)                        *)
(***************************************************************************)
DashKinds == {"deleteHotel", "confirmBooking", "completeBooking"}

MutationMethod(kind) == IF kind = "deleteHotel" THEN "DELETE" ELSE "POST"
MutationUrl(kind, id) ==
    CASE kind = "deleteHotel"     -> "/hotels/" \o ToString(id)
      [] kind = "confirmBooking"  -> "/bookings/" \o ToString(id) \o "/confirm"
      [] kind = "completeBooking" -> "/bookings/" \o ToString(id) \o "/complete"
SuccessMessage(kind) ==
    CASE kind = "deleteHotel"     -> "Hotel deleted successfully"
      [] kind = "confirmBooking"  -> "Booking confirmed"
      [] kind = "completeBooking" -> "Booking completed"
FailureFallback(kind) ==
    CASE kind = "deleteHotel"     -> "Delete failed"
      [] kind = "confirmBooking"  -> "Confirm failed"
      [] kind = "completeBooking" -> "Complete failed"
\* fetchHotels after a hotel mutation, fetchBookings after a booking mutation
RefetchUrl(kind) == IF kind = "deleteHotel" THEN "/hotels" ELSE "/bookings/operator"

\* the edit and delete buttons of a hotel card, without the ownership test
HotelActionsAny(hotel, u) == {"edit", "delete"}

\* the edit and delete buttons of a hotel card that are not disabled
HotelActions(hotel, u) ==
    IF u # NoUser /\ hotel.operatorId = u.id THEN {"edit", "delete"} ELSE {}

\* the booking row offering complete for a pending booking as well
OperatorBookingActionsEager(booking) ==
    (IF booking.status = "pending" THEN {"confirm", "complete"} ELSE {})
    \cup (IF booking.status = "confirmed" THEN {"complete"} ELSE {})

\* the buttons of a row of the booking table
OperatorBookingActions(booking) ==
    (IF booking.status = "pending" THEN {"confirm"} ELSE {})
    \cup (IF booking.status = "confirmed" THEN {"complete"} ELSE {})

Rows(list) == {list[i] : i \in 1..Len(list)}

\* the button of handler kind is on screen, and enabled, for record id
DashOffered(kind, id) ==
    IF kind = "deleteHotel"
    THEN \E h \in Rows(dash.hotels) : h.id = id /\ "delete" \in HotelActions(h, UseAuth.user)
    ELSE \E b \in Rows(dash.bookings) :
            /\ b.id = id
            /\ (IF kind = "confirmBooking" THEN "confirm" ELSE "complete")
                  \in OperatorBookingActions(b)

\* what the row of record id displays when the button is pressed
DashSeen(kind, id) ==
    IF kind = "deleteHotel" THEN "listed"
    ELSE (CHOOSE b \in Rows(dash.bookings) : b.id = id).status

\* a fetch that no handler invocation is waiting for
NoTask == [kind |-> "none", arg |-> 0, by |-> NoUser, seen |-> "", pc |-> "done",
           sent |-> <<>>, raised |-> NoError, caught |-> NoError, applied |-> FALSE]

DashTasks == BagToSet(dash.tasks)

\* fetchHotels / fetchBookings up to the await, called by the invocation of (or
\* by an effect); the backend answers with the data it holds when the request
\* is sent, the answer is delivered later
DashFetch(url, of, srv, u) ==
    [url |-> url, of |-> of,
     hotels |-> IF url = "/hotels" THEN HotelsResponse(srv) ELSE <<>>,
     bookings |-> IF url = "/hotels" THEN <<>> ELSE OperatorBookingsResponse(srv, u)]

\* the dashboard has just mounted under an operator's session, its two mount
\* fetches in flight; pendingLogin: the login form was submitted twice and one
\* of the two calls is still in flight
DashMounted(pendingLogin) ==
    /\ user \in {u \in Users : u.role = "operator"}
    /\ loading = FALSE
    /\ token = "t1"
    /\ path = "/operator"
    /\ trail = RenderPass("/operator", [user |-> user, loading |-> FALSE], <<>>)
    /\ IF pendingLogin
       THEN /\ net = SetToBag({[method |-> "POST", url |-> "/auth/login", auth |-> NoHeader]})
            /\ lastAuth = [op |-> "login", user |-> user, token |-> token]
            /\ calls = <<"login", "navigate">>
       ELSE /\ net = EmptyBag
            /\ lastAuth = NoAuthCall
            /\ calls = <<>>
    /\ loginError = ""
    /\ probe = NoProbe
    /\ server \in Servers
    /\ dash = [NoDash EXCEPT !.fetches =
                  SetToBag({DashFetch("/hotels", NoTask, server, user),
                            DashFetch("/bookings/operator", NoTask, server, user)})]
    /\ uc = NoUc
    /\ detail = NoDetail
    /\ reg = NoReg
    /\ home = NoHome

DashInit == DashMounted(FALSE)

DashFrame == UNCHANGED <<user, loading, token, lastAuth, path, trail, net, loginError, calls, probe,
                         uc, home, detail, reg>>

\* the Booking Management tab is selected: its effect calls fetchBookings
DashTabBookings ==
    /\ Shown = "OperatorDashboard"
    /\ BagCardinality(dash.fetches) < MaxInFlight
    /\ dash' = [dash EXCEPT !.fetches =
                  @ (+) One(DashFetch("/bookings/operator", NoTask, server, user))]
    /\ UNCHANGED server
    /\ DashFrame

\* handleDeleteHotel (the confirm dialog accepted), handleConfirmBooking,
\* handleCompleteBooking: up to the await of the mutating call
HandleMutation(kind, id) ==
    /\ Shown = "OperatorDashboard"
    /\ DashOffered(kind, id)
    /\ BagCardinality(dash.tasks) < MaxActions
    /\ LET req == ApiRequest(MutationMethod(kind), MutationUrl(kind, id))
       IN dash' = [dash EXCEPT !.tasks = @ (+) One(
                     [kind |-> kind, arg |-> id, by |-> user, seen |-> DashSeen(kind, id),
                      pc |-> "mutation", sent |-> <<req>>,
                      raised |-> NoError, caught |-> NoError, applied |-> FALSE])]
    /\ UNCHANGED server
    /\ DashFrame

\* the backend accepts the mutation t: the record is in the state the transition
\* starts from and the hotel belongs to the requester
Accepts(srv, t) ==
    CASE t.kind = "deleteHotel" ->
            t.arg \in srv.hotels /\ Owns(t.by, t.arg)
      [] t.kind = "confirmBooking" ->
            srv.status[t.arg] = "pending" /\ Owns(t.by, HotelOf(t.arg))
      [] t.kind = "completeBooking" ->
            srv.status[t.arg] = "confirmed" /\ Owns(t.by, HotelOf(t.arg))

Commit(srv, t) ==
    CASE t.kind = "deleteHotel" -> [srv EXCEPT !.hotels = @ \ {t.arg}]
      [] t.kind = "confirmBooking" -> [srv EXCEPT !.status[t.arg] = "confirmed"]
      [] t.kind = "completeBooking" -> [srv EXCEPT !.status[t.arg] = "completed"]

\* the mutating call of t resolved: the success notice, then the refetch is issued
MutationResolve(t) ==
    /\ t \in DashTasks
    /\ t.pc = "mutation"
    /\ Accepts(server, t)
    /\ server' = Commit(server, t)
    /\ LET req == ApiRequest("GET", RefetchUrl(t.kind))
           waiting == [t EXCEPT !.sent = Append(@, req), !.pc = "refetch"]
       IN dash' = [dash EXCEPT
                     !.snackbar = [open |-> TRUE, message |-> SuccessMessage(t.kind),
                                   severity |-> "success"],
                     !.tasks = Swap(@, t, waiting),
                     !.fetches = @ (+) One(DashFetch(req.url, waiting, server', user))]
    /\ DashFrame

\* the mutating call of t rejected with e: the catch block shows the error notice
MutationReject(t, e) ==
    /\ t \in DashTasks
    /\ t.pc = "mutation"
    /\ LET error == ResponseErrorInterceptor(e)
       IN dash' = [dash EXCEPT
                     !.snackbar = [open |-> TRUE,
                                   message |-> IF error.message # NoMessage
                                               THEN error.message
                                               ELSE FailureFallback(t.kind),
                                   severity |-> "error"],
                     !.tasks = Swap(@, t, [t EXCEPT !.raised = e, !.caught = error,
                                                    !.pc = "done"])]
    /\ UNCHANGED server
    /\ DashFrame

\* fetchHotels / fetchBookings after the await, the call having succeeded: the
\* list is replaced by the response
DashFetchResolve(f) ==
    /\ f \in BagToSet(dash.fetches)
    /\ dash' = [dash EXCEPT
                  !.fetches = @ (-) One(f),
                  !.hotels = IF f.url = "/hotels" THEN f.hotels ELSE @,
                  !.bookings = IF f.url = "/hotels" THEN @ ELSE f.bookings,
                  !.tasks = IF f.of = NoTask THEN @
                            ELSE Swap(@, f.of, [f.of EXCEPT !.pc = "done", !.applied = TRUE])]
    /\ UNCHANGED server
    /\ DashFrame

\* fetchHotels / fetchBookings after the await, the call having failed: the
\* error goes to the console, the list stays
DashFetchReject(f) ==
    /\ f \in BagToSet(dash.fetches)
    /\ dash' = [dash EXCEPT
                  !.fetches = @ (-) One(f),
                  !.tasks = IF f.of = NoTask THEN @
                            ELSE Swap(@, f.of, [f.of EXCEPT !.pc = "done"])]
    /\ UNCHANGED server
    /\ DashFrame

DashNext ==
    \/ DashTabBookings
    \/ \E k \in DashKinds, id \in RecordIds : HandleMutation(k, id)
    \/ \E t \in DashTasks : MutationResolve(t)
    \/ \E t \in DashTasks, e \in Errors : MutationReject(t, e)
    \/ \E f \in BagToSet(dash.fetches) : DashFetchResolve(f)
    \/ \E f \in BagToSet(dash.fetches) : DashFetchReject(f)

DashSpec == DashInit /\ [][DashNext]_vars

\* the dashboard with the second login call still in flight
OwnerInit == DashMounted(TRUE)

OwnerNext ==
    \/ DashNext
    \/ \E r \in InFlight, u \in Users, t \in IssuedTokens : LoginResolve(r, u, t)

OwnerSpec == OwnerInit /\ [][OwnerNext]_vars

(***************************************************************************)
(* User center (pages/UserCenter.tsx): the booking records                 *)
(***************************************************************************)
\* the booking card testing for completed only
UserBookingActionsUnlessCompleted(booking) ==
    IF booking.status # "completed" THEN {"cancel"} ELSE {}

\* the buttons of a booking card
UserBookingActions(booking) == IF booking.status = "pending" THEN {"cancel"} ELSE {}

UcTasks == BagToSet(uc.tasks)

\* the cancel button of booking id is on screen: the Booking Records tab is
\* selected, it is not loading, and the card of the booking shows the button
UcOffered(id) ==
    /\ uc.tabValue = 2
    /\ ~uc.loading
    /\ \E b \in Rows(uc.bookings) : b.id = id /\ "cancel" \in UserBookingActions(b)

UcFetch(url, srv) ==
    [url |-> url,
     favorites |-> IF url = "/favorites" THEN FavoritesResponse(srv) ELSE <<>>,
     bookings |-> IF url = "/bookings" THEN UserBookingsResponse(srv) ELSE <<>>]

\* the user center has just mounted under a session, the Profile tab selected
UcInit ==
    /\ user = [id |-> 1, role |-> "user"]
    /\ loading = FALSE
    /\ token = "t1"
    /\ lastAuth = NoAuthCall
    /\ path = "/user"
    /\ trail = RenderPass("/user", [user |-> user, loading |-> FALSE], <<>>)
    /\ net = EmptyBag
    /\ loginError = ""
    /\ calls = <<>>
    /\ probe = NoProbe
    /\ server \in Servers
    /\ dash = NoDash
    /\ uc = NoUc
    /\ detail = NoDetail
    /\ reg = NoReg
    /\ home = NoHome

UcFrame == UNCHANGED <<user, loading, token, lastAuth, path, trail, net, loginError, calls, probe,
                       dash, home, detail, reg>>

\* handleTabChange, then the effect on tabValue: fetchFavorites or fetchBookings
\* up to the await
UcTabChange(newValue) ==
    /\ Shown = "UserCenter"
    /\ newValue # uc.tabValue
    /\ BagCardinality(uc.fetches) < MaxInFlight
    /\ uc' = IF newValue = 0 THEN [uc EXCEPT !.tabValue = 0]
             ELSE [uc EXCEPT
                     !.tabValue = newValue,
                     !.loading = TRUE,
                     !.fetches = @ (+) One(UcFetch(IF newValue = 1 THEN "/favorites"
                                                   ELSE "/bookings", server))]
    /\ UNCHANGED server
    /\ UcFrame

\* fetchFavorites / fetchBookings after the await, the call having succeeded
UcFetchResolve(f) ==
    /\ f \in BagToSet(uc.fetches)
    /\ uc' = [uc EXCEPT
                !.fetches = @ (-) One(f),
                !.favorites = IF f.url = "/favorites" THEN f.favorites ELSE @,
                !.bookings = IF f.url = "/bookings" THEN f.bookings ELSE @,
                !.loading = FALSE]
    /\ UNCHANGED server
    /\ UcFrame

\* fetchFavorites / fetchBookings after the await, the call having failed
UcFetchReject(f) ==
    /\ f \in BagToSet(uc.fetches)
    /\ uc' = [uc EXCEPT
                !.fetches = @ (-) One(f),
                !.snackbar = [open |-> TRUE,
                              message |-> IF f.url = "/favorites"
                                          THEN "Failed to fetch favorites"
                                          ELSE "Failed to fetch bookings",
                              severity |-> "error"],
                !.loading = FALSE]
    /\ UNCHANGED server
    /\ UcFrame

\* handleCancelBooking up to the await; the handler keeps the bookings of the
\* render it was created in
HandleCancelBooking(bookingId) ==
    /\ Shown = "UserCenter"
    /\ UcOffered(bookingId)
    /\ BagCardinality(uc.tasks) < MaxActions
    /\ LET req == ApiRequest("POST", "/bookings/" \o ToString(bookingId) \o "/cancel")
       IN uc' = [uc EXCEPT !.tasks = @ (+) One(
                   [kind |-> "cancelBooking", arg |-> bookingId,
                    seen |-> (CHOOSE b \in Rows(uc.bookings) : b.id = bookingId).status,
                    bookings |-> uc.bookings, pc |-> "mutation", sent |-> <<req>>,
                    raised |-> NoError, caught |-> NoError])]
    /\ UNCHANGED server
    /\ UcFrame

\* the cancelled copy of the bookings the handler kept
CancelPatch(bookings, bookingId) ==
    [i \in DOMAIN bookings |->
        IF bookings[i].id = bookingId THEN [bookings[i] EXCEPT !.status = "cancelled"]
        ELSE bookings[i]]

\* handleCancelBooking after the await, the backend having cancelled the booking
CancelResolve(t) ==
    /\ t \in UcTasks
    /\ t.pc = "mutation"
    /\ server.status[t.arg] = "pending"
    /\ server' = [server EXCEPT !.status[t.arg] = "cancelled"]
    /\ uc' = [uc EXCEPT
                !.bookings = CancelPatch(t.bookings, t.arg),
                !.snackbar = [open |-> TRUE, message |-> "Booking cancelled",
                              severity |-> "success"],
                !.tasks = Swap(@, t, [t EXCEPT !.pc = "done"])]
    /\ UcFrame

\* handleCancelBooking after the await, the call having failed with e
CancelReject(t, e) ==
    /\ t \in UcTasks
    /\ t.pc = "mutation"
    /\ LET error == ResponseErrorInterceptor(e)
       IN uc' = [uc EXCEPT
                   !.snackbar = [open |-> TRUE,
                                 message |-> IF error.message # NoMessage
                                             THEN error.message ELSE "Cancel failed",
                                 severity |-> "error"],
                   !.tasks = Swap(@, t, [t EXCEPT !.raised = e, !.caught = error,
                                                  !.pc = "done"])]
    /\ UNCHANGED server
    /\ UcFrame

UcNext ==
    \/ \E n \in 0..2 : UcTabChange(n)
    \/ \E f \in BagToSet(uc.fetches) : UcFetchResolve(f)
    \/ \E f \in BagToSet(uc.fetches) : UcFetchReject(f)
    \/ \E b \in RecordIds : HandleCancelBooking(b)
    \/ \E t \in UcTasks : CancelResolve(t)
    \/ \E t \in UcTasks, e \in Errors : CancelReject(t, e)

UcSpec == UcInit /\ [][UcNext]_vars

\* the two views that list bookings, either one on screen
BookSpec == (DashInit \/ UcInit) /\ [][DashNext \/ UcNext]_vars

(***************************************************************************)
(* Home (pages/Home.tsx): the favorites of the hotel list                  *)
(***************************************************************************)
HomeTasks == BagToSet(home.tasks)

\* favorites.includes(hotelId)
Includes(favorites, hotelId) == \E i \in DOMAIN favorites : favorites[i] = hotelId

\* favorites.filter(id => id !== hotelId)
Without(favorites, hotelId) == SelectSeq(favorites, LAMBDA id : id # hotelId)

\* response.data.map(hotel => hotel.id)
FavoriteIds(data) == [i \in DOMAIN data |-> data[i].id]

\* the search texts a visitor submits; the empty text asks for every hotel
Names == {"", "a"}
NoName == "<no name>"
HotelName(h) == IF h = 1 THEN "a" ELSE "b"

\* params: name ? { name } : {}
HotelsParams(name) == IF name # "" THEN name ELSE NoName

\* response.data of GET /hotels with the name parameter
SearchResponse(srv, param) ==
    SelectSeq(HotelsResponse(srv), LAMBDA h : param = NoName \/ HotelName(h.id) = param)

\* fetchHotels(name) up to its await: the view h after the call was issued; the
\* fetch just issued is the latest one
FetchHotels(h, srv, name) ==
    LET older == {f \in BagToSet(h.hotelFetches) : f.latest}
        aged == IF older = {} THEN h.hotelFetches
                ELSE LET f == CHOOSE f \in older : TRUE
                     IN Swap(h.hotelFetches, f, [f EXCEPT !.latest = FALSE])
    IN [h EXCEPT !.loading = TRUE,
                 !.answer = NoAnswer,
                 !.hotelFetches = aged (+) One([param |-> HotelsParams(name), latest |-> TRUE,
                                                data |-> SearchResponse(srv, HotelsParams(name))])]

\* Home has just mounted, with or without a session: the mount effect's
\* fetchHotels is in flight and, with a session, its fetchFavorites
HomeMounted(h) ==
    /\ user \in {NoUser, [id |-> 1, role |-> "user"]}
    /\ loading = FALSE
    /\ token = IF user = NoUser THEN NoToken ELSE "t1"
    /\ lastAuth = NoAuthCall
    /\ path = "/"
    /\ trail = RenderPass("/", [user |-> user, loading |-> FALSE], <<>>)
    /\ net = EmptyBag
    /\ loginError = ""
    /\ calls = <<>>
    /\ probe = NoProbe
    /\ server \in FavoriteServers
    /\ dash = NoDash
    /\ uc = NoUc
    /\ detail = NoDetail
    /\ reg = NoReg
    /\ home = [h EXCEPT !.fetches =
                  IF user = NoUser THEN EmptyBag
                  ELSE One([url |-> "/favorites", data |-> FavoritesResponse(server)])]

\* Home with the response of the mount's fetchHotels arrived: every hotel is
\* listed
HomeInit ==
    HomeMounted([NoHome EXCEPT !.hotels = SearchResponse(NoServer, NoName),
                               !.answer = [known |-> TRUE,
                                           list |-> SearchResponse(NoServer, NoName)]])

HomeFrame == UNCHANGED <<user, loading, token, lastAuth, path, trail, net, loginError, calls, probe,
                         dash, uc, detail, reg>>

\* fetchFavorites after the await, the call having succeeded
HomeFetchResolve(f) ==
    /\ f \in BagToSet(home.fetches)
    /\ home' = [home EXCEPT !.fetches = @ (-) One(f), !.favorites = FavoriteIds(f.data)]
    /\ UNCHANGED server
    /\ HomeFrame

\* fetchFavorites after the await, the call having failed with e: console.error
HomeFetchReject(f, e) ==
    /\ f \in BagToSet(home.fetches)
    /\ home' = [home EXCEPT !.fetches = @ (-) One(f), !.console = ResponseErrorInterceptor(e)]
    /\ UNCHANGED server
    /\ HomeFrame

\* handleSearch: fetchHotels(search), with the text typed just before
HandleSearch(name) ==
    /\ Shown = "Home"
    /\ BagCardinality(home.hotelFetches) < MaxInFlight
    /\ home' = FetchHotels([home EXCEPT !.search = name], server, name)
    /\ UNCHANGED server
    /\ HomeFrame

\* fetchHotels after the await, the call having succeeded
HotelsResolve(f) ==
    /\ f \in BagToSet(home.hotelFetches)
    /\ home' = [home EXCEPT !.hotelFetches = @ (-) One(f),
                            !.hotels = f.data,
                            !.loading = FALSE,
                            !.answer = IF f.latest THEN [known |-> TRUE, list |-> f.data] ELSE @]
    /\ UNCHANGED server
    /\ HomeFrame

\* fetchHotels after the await, the call having failed: catch without a binding
HotelsReject(f) ==
    /\ f \in BagToSet(home.hotelFetches)
    /\ home' = [home EXCEPT !.hotelFetches = @ (-) One(f),
                            !.hotels = <<>>,
                            !.loading = FALSE,
                            !.answer = IF f.latest THEN [known |-> TRUE, list |-> <<>>] ELSE @]
    /\ UNCHANGED server
    /\ HomeFrame

\* the Navbar's Logout pressed while Home is on screen: user becomes null and
\* the effect on [user] runs again, fetchFavorites returning at its first line
HomeLogout ==
    /\ "Logout" \in Navbar(UseAuth)
    /\ BagCardinality(home.hotelFetches) < MaxInFlight
    /\ logout
    /\ Rerender(path, [user |-> NoUser, loading |-> loading])
    /\ home' = FetchHotels(home, server, "")
    /\ UNCHANGED <<loading, net, loginError, calls, probe, dash, uc, server, detail, reg>>

\* the card of hotelId, with its favorite icon, is on screen
HomeListed(hotelId) ==
    /\ ~home.loading
    /\ \E h \in Rows(home.hotels) : h.id = hotelId

\* the request handleToggleFavorite sends for hotelId, given the favorites of
\* the render the handler was created in
ToggleRequest(favorites, hotelId) ==
    IF Includes(favorites, hotelId)
    THEN ApiRequest("DELETE", "/favorites/" \o ToString(hotelId))
    ELSE ApiRequest("POST", "/favorites")

\* handleToggleFavorite without the test for a session
HandleToggleFavoriteNoSessionTest(hotelId) ==
    /\ Shown = "Home"
    /\ HomeListed(hotelId)
    /\ BagCardinality(home.tasks) < MaxActions
    /\ home' = [home EXCEPT !.tasks = @ (+) One(
                  [hotelId |-> hotelId, n |-> BagCardinality(home.tasks),
                   fetching |-> BagCardinality(home.fetches),
                   favorites |-> home.favorites, pc |-> "mutation",
                   sent |-> <<ToggleRequest(home.favorites, hotelId)>>,
                   raised |-> NoError, caught |-> NoError])]
    /\ UNCHANGED server
    /\ HomeFrame

\* handleToggleFavorite up to its return or its await; the invocation keeps the
\* favorites of its render, its rank among the invocations (n) and the number
\* of favorites fetches in flight when the icon was pressed (fetching)
HandleToggleFavorite(hotelId) ==
    /\ Shown = "Home"
    /\ HomeListed(hotelId)
    /\ IF user = NoUser
       THEN home' = [home EXCEPT !.snackbar = [open |-> TRUE, message |-> "Please login first",
                                               severity |-> "error"]]
       ELSE /\ BagCardinality(home.tasks) < MaxActions
            /\ home' = [home EXCEPT !.tasks = @ (+) One(
                          [hotelId |-> hotelId, n |-> BagCardinality(home.tasks),
                           fetching |-> BagCardinality(home.fetches),
                           favorites |-> home.favorites, pc |-> "mutation",
                           sent |-> <<ToggleRequest(home.favorites, hotelId)>>,
                           raised |-> NoError, caught |-> NoError])]
    /\ UNCHANGED server
    /\ HomeFrame

\* the favorites the handler writes once its call has succeeded
Toggled(favorites, hotelId) ==
    IF Includes(favorites, hotelId) THEN Without(favorites, hotelId)
    ELSE Append(favorites, hotelId)

\* handleToggleFavorite after the await, the call having succeeded
ToggleResolve(t) ==
    /\ t \in HomeTasks
    /\ t.pc = "mutation"
    /\ server' = [server EXCEPT !.favorites =
                     IF t.sent[1].method = "DELETE" THEN @ \ {t.hotelId}
                     ELSE @ \cup {t.hotelId}]
    /\ home' = [home EXCEPT
                  !.favorites = Toggled(t.favorites, t.hotelId),
                  !.snackbar = [open |-> TRUE,
                                message |-> IF t.sent[1].method = "DELETE"
                                            THEN "Removed from favorites"
                                            ELSE "Added to favorites",
                                severity |-> "success"],
                  !.tasks = Swap(@, t, [t EXCEPT !.pc = "done"])]
    /\ HomeFrame

\* handleToggleFavorite after the await, the call having failed with e
ToggleReject(t, e) ==
    /\ t \in HomeTasks
    /\ t.pc = "mutation"
    /\ LET error == ResponseErrorInterceptor(e)
       IN home' = [home EXCEPT
                     !.snackbar = [open |-> TRUE,
                                   message |-> IF error.message # NoMessage
                                               THEN error.message ELSE "Operation failed",
                                   severity |-> "error"],
                     !.tasks = Swap(@, t, [t EXCEPT !.raised = e, !.caught = error,
                                                    !.pc = "done"])]
    /\ UNCHANGED server
    /\ HomeFrame

HomeNext ==
    \/ \E f \in BagToSet(home.fetches) : HomeFetchResolve(f)
    \/ \E f \in BagToSet(home.fetches), e \in Errors : HomeFetchReject(f, e)
    \/ \E f \in BagToSet(home.hotelFetches) : HotelsResolve(f)
    \/ \E f \in BagToSet(home.hotelFetches) : HotelsReject(f)
    \/ \E h \in RecordIds : HandleToggleFavorite(h)
    \/ \E t \in HomeTasks : ToggleResolve(t)
    \/ \E t \in HomeTasks, e \in Errors : ToggleReject(t, e)
    \/ HomeLogout

HomeSpec == HomeInit /\ [][HomeNext]_vars

\* the hotel list of Home from its mount on: searches, their responses in any
\* order, logout
ListInit == HomeMounted(FetchHotels(NoHome, NoServer, ""))

ListNext ==
    \/ \E name \in Names : HandleSearch(name)
    \/ \E f \in BagToSet(home.hotelFetches) : HotelsResolve(f)
    \/ \E f \in BagToSet(home.hotelFetches) : HotelsReject(f)
    \/ \E f \in BagToSet(home.fetches) : HomeFetchResolve(f)
    \/ \E f \in BagToSet(home.fetches), e \in Errors : HomeFetchReject(f, e)
    \/ HomeLogout

ListSpec == ListInit /\ [][ListNext]_vars

(***************************************************************************)
(* Hotel detail (pages/HotelDetail.tsx)                                    *)
(***************************************************************************)
\* the days an input of type date can hold are 1..MaxDay, NoDate standing for
\* the empty input; a guest count is below, within or above the allowed range
MaxDay == 2
NoFieldErrors == [checkInDate |-> "", checkOutDate |-> "", guestCount |-> ""]
\* Yup reports an empty date input with the required text or with its type
\* error, depending on the cast; either way the field is in error
NotADate == "<required or not a date>"

\* validationSchema without the test of checkOutDate against checkInDate
BookingValidationNoMin(values) ==
    [checkInDate |-> IF values.checkInDate = NoDate THEN NotADate ELSE "",
     checkOutDate |-> IF values.checkOutDate = NoDate THEN NotADate ELSE "",
     guestCount |-> IF values.guestCount < MinGuests THEN "At least 1 guest"
                    ELSE IF values.guestCount > MaxGuests THEN "Up to 10 guests"
                    ELSE ""]

\* validationSchema: the error of each field of the booking form, "" for none;
\* Yup's date().min(ref) accepts a value equal to the reference
BookingValidation(values) ==
    [checkInDate |-> IF values.checkInDate = NoDate THEN NotADate ELSE "",
     checkOutDate |-> IF values.checkOutDate = NoDate THEN NotADate
                      ELSE IF values.checkInDate # NoDate
                              /\ ~(values.checkOutDate >= values.checkInDate)
                           THEN "Check-out date must be after check-in date"
                           ELSE "",
     guestCount |-> IF values.guestCount < MinGuests THEN "At least 1 guest"
                    ELSE IF values.guestCount > MaxGuests THEN "Up to 10 guests"
                    ELSE ""]

\* the errors the dialog shows: Formik shows a field's error once the field is
\* touched, which a submit attempt does for every field
BookingErrors ==
    IF detail.touched THEN BookingValidation(detail.values) ELSE NoFieldErrors

DetailTasks == BagToSet(detail.tasks)

\* HotelDetail has just mounted at /hotel/1, with or without a session; the
\* effect's fetchHotel is in flight
DetailInit ==
    /\ user \in {NoUser, [id |-> 1, role |-> "user"]}
    /\ loading = FALSE
    /\ token = IF user = NoUser THEN NoToken ELSE "t1"
    /\ lastAuth = NoAuthCall
    /\ path = "/hotel/:id"
    /\ trail = RenderPass("/hotel/:id", [user |-> user, loading |-> FALSE], <<>>)
    /\ net = EmptyBag
    /\ loginError = ""
    /\ calls = <<>>
    /\ probe = NoProbe
    /\ server = NoServer
    /\ dash = NoDash
    /\ uc = NoUc
    /\ home = NoHome
    /\ reg = NoReg
    /\ detail = [NoDetail EXCEPT !.fetching = TRUE]

DetailFrame == UNCHANGED <<user, loading, token, lastAuth, path, trail, net, loginError, calls,
                           probe, dash, uc, home, server, reg>>

\* fetchHotel after the await, the call having succeeded
FetchHotelResolve(rooms) ==
    /\ detail.fetching
    /\ detail' = [detail EXCEPT !.fetching = FALSE,
                                !.hotel = [id |-> 1, availableRooms |-> rooms],
                                !.loading = FALSE]
    /\ DetailFrame

\* fetchHotel after the await, the call having failed with e
FetchHotelReject(e) ==
    /\ detail.fetching
    /\ LET error == ResponseErrorInterceptor(e)
       IN detail' = [detail EXCEPT !.fetching = FALSE,
                                   !.error = IF error.message # NoMessage THEN error.message
                                             ELSE "Fail to get hotel data",
                                   !.loading = FALSE]
    /\ DetailFrame

\* the page shows the hotel, with its Book button enabled and not covered by
\* the dialog
BookOffered ==
    /\ Shown = "HotelDetail"
    /\ ~detail.loading
    /\ detail.error = ""
    /\ detail.hotel # NoHotel
    /\ detail.hotel.availableRooms # 0
    /\ ~detail.openBookingDialog

\* handleBooking
HandleBooking ==
    /\ BookOffered
    /\ IF user = NoUser
       THEN /\ Rerender("/login", UseAuth)
            /\ UNCHANGED detail
       ELSE /\ detail' = [detail EXCEPT !.openBookingDialog = TRUE]
            /\ UNCHANGED <<path, trail>>
    /\ UNCHANGED <<user, loading, token, lastAuth, net, loginError, calls, probe, dash, uc, home,
                   server, reg>>

\* the dialog's onClose and its Cancel button
DialogClose ==
    /\ Shown = "HotelDetail"
    /\ detail.openBookingDialog
    /\ detail' = [detail EXCEPT !.openBookingDialog = FALSE]
    /\ DetailFrame

\* the inputs of the dialog: bookingFormik.handleChange
BookingChange(checkIn, checkOut, guests) ==
    /\ Shown = "HotelDetail"
    /\ detail.openBookingDialog
    /\ detail' = [detail EXCEPT !.values = [checkInDate |-> checkIn, checkOutDate |-> checkOut,
                                            guestCount |-> guests]]
    /\ DetailFrame

\* bookingFormik.handleSubmit: every field is touched and validated, and
\* onSubmit runs, up to its first await, when no field is in error
BookingSubmit ==
    /\ Shown = "HotelDetail"
    /\ detail.openBookingDialog
    /\ IF BookingValidation(detail.values) = NoFieldErrors
       THEN /\ BagCardinality(detail.tasks) < MaxActions
            /\ detail' = [detail EXCEPT
                  !.touched = TRUE,
                  !.tasks = @ (+) One([values |-> detail.values, pc |-> "post",
                                       sent |-> <<ApiRequest("POST", "/bookings")>>,
                                       posted |-> FALSE, notice |-> NoSnackbar,
                                       raised |-> NoError])]
       ELSE detail' = [detail EXCEPT !.touched = TRUE]
    /\ DetailFrame

\* onSubmit after api.post has succeeded, up to the await of the refetch
BookingResolve(t, message) ==
    /\ t \in DetailTasks
    /\ t.pc = "post"
    /\ LET notice == [open |-> TRUE,
                      message |-> IF message # NoMessage THEN message
                                  ELSE "Booking successful, we will contact you soon",
                      severity |-> "success"]
       IN detail' = [detail EXCEPT
              !.snackbar = notice,
              !.openBookingDialog = FALSE,
              !.values = BookingInitialValues,
              !.touched = FALSE,
              !.tasks = Swap(@, t, [t EXCEPT !.pc = "refetch", !.posted = TRUE,
                                             !.notice = notice,
                                             !.sent = Append(@, ApiRequest("GET", "/hotels/:id"))])]
    /\ DetailFrame

\* onSubmit's catch, the POST or the refetch of the hotel having failed with e
BookingReject(t, e) ==
    /\ t \in DetailTasks
    /\ t.pc \in {"post", "refetch"}
    /\ LET error == ResponseErrorInterceptor(e)
           notice == [open |-> TRUE,
                      message |-> IF error.message # NoMessage THEN error.message
                                  ELSE "Booking failed",
                      severity |-> "error"]
       IN detail' = [detail EXCEPT
              !.snackbar = notice,
              !.tasks = Swap(@, t, [t EXCEPT !.pc = "done", !.raised = e, !.notice = notice])]
    /\ DetailFrame

\* onSubmit after the refetch of the hotel has succeeded
BookingRefetchResolve(t, rooms) ==
    /\ t \in DetailTasks
    /\ t.pc = "refetch"
    /\ detail' = [detail EXCEPT !.hotel = [id |-> 1, availableRooms |-> rooms],
                                !.tasks = Swap(@, t, [t EXCEPT !.pc = "done"])]
    /\ DetailFrame

\* the Navbar's Logout; the open dialog is modal and covers the Navbar
DetailLogout ==
    /\ ~detail.openBookingDialog
    /\ NavbarLogout

\* the session ends by the expiry of its token: the store clears it
SessionExpiry ==
    /\ user # NoUser
    /\ user' = NoUser
    /\ token' = NoToken
    /\ Rerender(path, [user |-> NoUser, loading |-> loading])
    /\ UNCHANGED <<loading, lastAuth, net, loginError, calls, probe, dash, uc, home, server,
                   detail, reg>>

DetailNext ==
    \/ \E rooms \in {0, 1} : FetchHotelResolve(rooms)
    \/ \E e \in Errors : FetchHotelReject(e)
    \/ HandleBooking
    \/ DialogClose
    \/ \E checkIn, checkOut \in 0..MaxDay, guests \in {MinGuests - 1, MinGuests, MaxGuests + 1} :
          BookingChange(checkIn, checkOut, guests)
    \/ BookingSubmit
    \/ \E t \in DetailTasks, message \in {NoMessage, "m2"} : BookingResolve(t, message)
    \/ \E t \in DetailTasks, e \in Errors : BookingReject(t, e)
    \/ \E t \in DetailTasks, rooms \in {0, 1} : BookingRefetchResolve(t, rooms)
    \/ DetailLogout
    \/ SessionExpiry

DetailSpec == DetailInit /\ [][DetailNext]_vars

\* the booking form on its own: the dialog is open over a loaded hotel, with a
\* session, and holds any values a visitor can have typed; the form is
\* submitted, the calls resolve, the dialog is closed and opened again
BookingFormInit ==
    /\ user = [id |-> 1, role |-> "user"]
    /\ loading = FALSE
    /\ token = "t1"
    /\ lastAuth = NoAuthCall
    /\ path = "/hotel/:id"
    /\ trail = RenderPass("/hotel/:id", [user |-> user, loading |-> FALSE], <<>>)
    /\ net = EmptyBag
    /\ loginError = ""
    /\ calls = <<>>
    /\ probe = NoProbe
    /\ server = NoServer
    /\ dash = NoDash
    /\ uc = NoUc
    /\ home = NoHome
    /\ reg = NoReg
    /\ \E checkIn, checkOut \in 0..MaxDay, guests \in {MinGuests - 1, MinGuests, MaxGuests + 1} :
          detail = [NoDetail EXCEPT
                       !.loading = FALSE,
                       !.hotel = [id |-> 1, availableRooms |-> 1],
                       !.openBookingDialog = TRUE,
                       !.values = [checkInDate |-> checkIn, checkOutDate |-> checkOut,
                                   guestCount |-> guests]]

BookingFormNext ==
    \/ BookingSubmit
    \/ \E t \in DetailTasks, message \in {NoMessage, "m2"} : BookingResolve(t, message)
    \/ \E t \in DetailTasks, e \in Errors : BookingReject(t, e)
    \/ \E t \in DetailTasks, rooms \in {0, 1} : BookingRefetchResolve(t, rooms)
    \/ DialogClose
    \/ HandleBooking

BookingFormSpec == BookingFormInit /\ [][BookingFormNext]_vars

(***************************************************************************)
(* Register (pages/Register.tsx)                                           *)
(***************************************************************************)
MinPassword == 6
NoRegisterErrors == [email |-> "", password |-> "", confirmPassword |-> "", registerCode |-> ""]

\* validationSchema with registerCode never required
RegisterValidationNoCode(values) ==
    [email |-> IF values.email = "" THEN "Please enter your email"
               ELSE IF values.email = "bad" THEN "Please enter a valid email" ELSE "",
     password |-> IF values.password = "" THEN "Please enter your password"
                  ELSE IF Len(values.password) < MinPassword
                       THEN "Password must be at least 6 characters" ELSE "",
     confirmPassword |-> IF values.confirmPassword = "" THEN "Please confirm your password"
                         ELSE IF values.confirmPassword # values.password
                              THEN "Passwords do not match" ELSE "",
     registerCode |-> ""]

\* validationSchema: the error of each field, "" for none; registerCode is
\* required when role is operator and not otherwise
RegisterValidation(values) ==
    [email |-> IF values.email = "" THEN "Please enter your email"
               ELSE IF values.email = "bad" THEN "Please enter a valid email" ELSE "",
     password |-> IF values.password = "" THEN "Please enter your password"
                  ELSE IF Len(values.password) < MinPassword
                       THEN "Password must be at least 6 characters" ELSE "",
     confirmPassword |-> IF values.confirmPassword = "" THEN "Please confirm your password"
                         ELSE IF values.confirmPassword # values.password
                              THEN "Passwords do not match" ELSE "",
     registerCode |-> IF values.role = "operator" /\ values.registerCode = ""
                      THEN "Register code is required for operators" ELSE ""]

\* the errors the form shows once a submit attempt has touched every field
RegisterErrors == IF reg.touched THEN RegisterValidation(reg.values) ELSE NoRegisterErrors

\* the body onSubmit posts
RegisterBody(values) ==
    [email |-> values.email, password |-> values.password, role |-> values.role,
     registerCode |-> IF values.role = "operator" THEN values.registerCode ELSE ""]

RegTasks == BagToSet(reg.tasks)

\* Register is on screen, no session, its fields holding what a visitor can
\* have typed; a text input always holds a string
RegisterInit ==
    /\ user = NoUser
    /\ loading = FALSE
    /\ token = NoToken
    /\ lastAuth = NoAuthCall
    /\ path = "/register"
    /\ trail = RenderPass("/register", [user |-> NoUser, loading |-> FALSE], <<>>)
    /\ net = EmptyBag
    /\ loginError = ""
    /\ calls = <<>>
    /\ probe = NoProbe
    /\ server = NoServer
    /\ dash = NoDash
    /\ uc = NoUc
    /\ home = NoHome
    /\ detail = NoDetail
    /\ \E email \in {"", "bad", "a@b.c"}, password \in {"", "12345", "123456"},
          confirmPassword \in {"", "12345", "123456"}, role \in Roles,
          registerCode \in {"", "code"} :
          reg = [NoReg EXCEPT !.values = [email |-> email, password |-> password,
                                          confirmPassword |-> confirmPassword,
                                          role |-> role, registerCode |-> registerCode]]

RegisterFrame == UNCHANGED <<user, loading, token, lastAuth, path, trail, net, loginError, calls,
                             probe, dash, uc, home, server, detail>>

\* formik.handleSubmit: every field is touched and validated, and onSubmit
\* runs, up to its await, when no field is in error
RegisterSubmit ==
    /\ Shown = "Register"
    /\ IF RegisterValidation(reg.values) = NoRegisterErrors
       THEN /\ BagCardinality(reg.tasks) < MaxActions
            /\ reg' = [reg EXCEPT
                  !.touched = TRUE,
                  !.error = "",
                  !.success = "",
                  !.tasks = @ (+) One([values |-> reg.values, body |-> RegisterBody(reg.values),
                                       sent |-> <<ApiRequest("POST", "/auth/register")>>,
                                       pc |-> "post", raised |-> NoError])]
       ELSE reg' = [reg EXCEPT !.touched = TRUE]
    /\ RegisterFrame

\* onSubmit after the await, the call having succeeded
RegisterResolve(t) ==
    /\ t \in RegTasks
    /\ t.pc = "post"
    /\ reg' = [reg EXCEPT !.success = "Registration successful, please login",
                          !.tasks = Swap(@, t, [t EXCEPT !.pc = "done"])]
    /\ RegisterFrame

\* onSubmit after the await, the call having failed with e
RegisterReject(t, e) ==
    /\ t \in RegTasks
    /\ t.pc = "post"
    /\ LET err == ResponseErrorInterceptor(e)
       IN reg' = [reg EXCEPT !.error = IF err.message # NoMessage THEN err.message
                                       ELSE "Registration failed",
                             !.tasks = Swap(@, t, [t EXCEPT !.pc = "done", !.raised = e])]
    /\ RegisterFrame

\* the effect on [success]: a second after the success text is set, navigate('/login')
RegisterRedirect ==
    /\ Shown = "Register"
    /\ reg.success # ""
    /\ Rerender("/login", UseAuth)
    /\ UNCHANGED <<user, loading, token, lastAuth, net, loginError, calls, probe, dash, uc, home,
                   server, detail, reg>>

RegisterNext ==
    \/ RegisterSubmit
    \/ \E t \in RegTasks : RegisterResolve(t)
    \/ \E t \in RegTasks, e \in Errors : RegisterReject(t, e)
    \/ RegisterRedirect

RegisterSpec == RegisterInit /\ [][RegisterNext]_vars

(***************************************************************************)
(* Properties                                                              *)
(***************************************************************************)
TrailSteps == {trail[i] : i \in 1..Len(trail)}
HomeOf(role) == IF role = "operator" THEN "/operator" ELSE "/"

\* C1: while the session is loading, absent, or present with a role other than
\* operator, the /operator route never renders the operator dashboard, and once
\* loading is over its element is a redirect to another location.
C1_OperatorOnly ==
    /\ \A s \in TrailSteps :
          (s.at = "/operator" /\ (loading \/ user = NoUser \/ user.role # "operator"))
          => /\ s.el.kind # "Children"
             /\ s.el.page # "OperatorDashboard"
             /\ ~loading => (s.el.kind = "Navigate" /\ s.el.to # "/operator")
    /\ (loading \/ user = NoUser \/ user.role # "operator") => Shown # "OperatorDashboard"

C1_Witness ==
    /\ ~loading
    /\ user # NoUser
    /\ user.role = "user"
    /\ \E s \in TrailSteps : s.at = "/operator" /\ s.el.kind = "Navigate"
    /\ path # "/operator"

\* C2: with loading over and no session, the routes /operator and /user redirect
\* to /login and render no children.
C2_NoSessionToLogin ==
    \A s \in TrailSteps :
        (s.at \in {"/operator", "/user"} /\ ~loading /\ user = NoUser)
        => /\ s.el = NavigateTo("/login")
           /\ Shown \notin {"OperatorDashboard", "UserCenter"}

C2_Witness ==
    /\ ~loading
    /\ user = NoUser
    /\ trail[1].at = "/user"
    /\ trail[1].el.kind = "Navigate"
    /\ path = "/login"
    /\ Shown = "Login"

\* C3: an evaluation of either guard made while loading yields the wait
\* indicator, whatever user and requiredRole are; a redirect or the children come
\* only from an evaluation made with loading false.
C3_LoadingDefers ==
    /\ probe.auth.loading => probe.el = Progress
    /\ probe.el.kind \in {"Navigate", "Children"} => ~probe.auth.loading

C3_Witness ==
    /\ probe.gate = "PublicRoute"
    /\ probe.auth.loading
    /\ probe.auth.user # NoUser
    /\ probe.el.kind = "Progress"

\* C4: when the login call succeeds, the handler calls login(user, token) and then
\* navigate(home of the role); after it the session is that user with that token
\* and the screen is that home view, not /login.
NewlySent == {r \in BagToSet(net') : CopiesIn(r, net') > CopiesIn(r, net)}
LoginSettled == \E r \in InFlight : r.url = "/auth/login" /\ CopiesIn(r, net') < CopiesIn(r, net)
LoginSucceeds == LoginSettled /\ calls' # <<>>

C4_LoginThenHome ==
    [][LoginSucceeds =>
         /\ calls' = <<"login", "navigate">>
         /\ lastAuth'.op = "login"
         /\ user' = lastAuth'.user
         /\ user'.id \in UserIds /\ user'.role \in Roles
         /\ token' = lastAuth'.token
         /\ trail'[1].at = HomeOf(user'.role)
         /\ path' = HomeOf(user'.role)
         /\ path' # "/login"
         /\ Shown' = (IF user'.role = "operator" THEN "OperatorDashboard" ELSE "Home")]_vars

C4_Witness ==
    /\ calls = <<"login", "navigate">>
    /\ lastAuth.op = "login"
    /\ user = lastAuth.user
    /\ user.role = "operator"
    /\ path = "/operator"
    /\ Shown = "OperatorDashboard"

\* C5: with loading over, the routes /login and /register redirect a present
\* session to the home of its role and render their children for no session.
C5_GuestOnly ==
    \A s \in TrailSteps :
        (s.at \in {"/login", "/register"} /\ ~loading)
        => IF user # NoUser
           THEN /\ s.el = NavigateTo(HomeOf(user.role))
                /\ Shown \notin {"Login", "Register"}
           ELSE s.el = Children(IF s.at = "/login" THEN "Login" ELSE "Register")

C5_Witness ==
    /\ ~loading
    /\ user # NoUser
    /\ user.role = "operator"
    /\ trail[1].at = "/register"
    /\ trail[1].el = NavigateTo("/operator")
    /\ Shown = "OperatorDashboard"

\* C6: an evaluation of the authenticated-only guard with a session whose role
\* differs from the required role redirects to the home of the session's role.
C6_MismatchToRoleHome ==
    (/\ probe.gate = "ProtectedRoute"
     /\ ~probe.auth.loading
     /\ probe.auth.user # NoUser
     /\ probe.requiredRole # "none"
     /\ probe.auth.user.role # probe.requiredRole)
    => probe.el = NavigateTo(HomeOf(probe.auth.user.role))

\* C8: every request sent carries Authorization: Bearer <t> exactly when a
\* non-empty token t is persisted when it is sent, and no header otherwise.
C8_BearerIffToken ==
    [][\A r \in NewlySent :
          r.auth = (IF token # NoToken /\ token # ""
                    THEN "Bearer " \o token ELSE NoHeader)]_vars

C8_Witness ==
    \E r1, r2 \in InFlight : r1.auth = NoHeader /\ r2.auth = "Bearer t1"

\* C9: a failed call is never retried: a user action sends each of its requests
\* at most once, the error its handler catches is the error the call rejected
\* with, payload included, and after a failure the handler sends nothing more.
Endpoint(r) == <<r.method, r.url>>

C9_NoRetry ==
    \A t \in DashTasks :
        /\ \A i, j \in 1..Len(t.sent) : Endpoint(t.sent[i]) = Endpoint(t.sent[j]) => i = j
        /\ Len(t.sent) <= 2
        /\ t.raised # NoError =>
              /\ t.caught = t.raised
              /\ t.caught.message = t.raised.message
              /\ t.pc = "done"
              /\ Len(t.sent) = 1
        /\ (t.pc = "done" /\ t.raised = NoError) => Len(t.sent) = 2

C9_Witness ==
    \E t \in DashTasks :
        /\ t.kind = "confirmBooking"
        /\ t.raised.message = "m1"
        /\ t.caught = t.raised
        /\ t.pc = "done"
        /\ Len(t.sent) = 1
        /\ dash.snackbar = [open |-> TRUE, message |-> "m1", severity |-> "error"]

\* C10: after login(identity, token) the session is that identity and the
\* persisted token that token, and every request sent until the next login or
\* logout carries Bearer <that token>.
C10_LatestLogin ==
    [][/\ lastAuth'.op = "login" => (user' = lastAuth'.user /\ token' = lastAuth'.token)
       /\ lastAuth.op = "login" =>
            \A r \in NewlySent : r.auth = "Bearer " \o lastAuth.token]_vars

C10_Witness ==
    /\ lastAuth.op = "login"
    /\ lastAuth.token = "t2"
    /\ user = lastAuth.user
    /\ \E r1, r2 \in InFlight : r1.auth = "Bearer t1" /\ r2.auth = "Bearer t2"

\* C11: after logout() the session is absent and no token is persisted, and
\* until the next login every request is sent without an Authorization header and
\* the routes /operator and /user redirect to /login.
C11_LogoutClears ==
    [][/\ lastAuth'.op = "logout" =>
            /\ user' = NoUser
            /\ token' = NoToken
            /\ \A i \in 1..Len(trail') :
                  trail'[i].at \in {"/operator", "/user"} => trail'[i].el = NavigateTo("/login")
            /\ Shown' \notin {"OperatorDashboard", "UserCenter"}
       /\ lastAuth.op = "logout" => \A r \in NewlySent : r.auth = NoHeader]_vars

C11_Witness ==
    /\ lastAuth.op = "logout"
    /\ trail[1].at = "/operator"
    /\ trail[1].el = NavigateTo("/login")
    /\ Shown = "Login"
    /\ \E r \in InFlight : r.url = "/auth/login" /\ r.auth = NoHeader

\* C12: a present session always carries the role user or operator, and what is
\* gated is gated by that role: the operator dashboard is on screen and the
\* Navbar's operator link is rendered only for the role operator, the guest pages
\* only for no session; login, logout and rehydration never leave a session
\* without a role.
C12_SessionHasRole ==
    /\ user # NoUser => (user.role \in Roles /\ user.id \in UserIds)
    /\ lastAuth.op = "login" => (user = lastAuth.user /\ user.role \in Roles)
    /\ lastAuth.op = "logout" => user = NoUser
    /\ Shown = "OperatorDashboard" => (user # NoUser /\ user.role = "operator")
    /\ Shown = "UserCenter" => user # NoUser
    /\ (Shown \in {"Login", "Register"} /\ ~loading) => user = NoUser
    /\ "Operator Dashboard" \in Navbar(UseAuth)
          <=> (~loading /\ user # NoUser /\ user.role = "operator")
    /\ (~loading /\ user # NoUser /\ trail[1].at \in {"/login", "/register"})
          => path = HomeOf(user.role)

C12_Witness ==
    /\ lastAuth.op = "login"
    /\ user.role = "user"
    /\ trail[1].at = "/operator"
    /\ Shown = "Home"
    /\ "Operator Dashboard" \notin Navbar(UseAuth)
    /\ "Logout" \in Navbar(UseAuth)

\* C13: what a booking's row offers depends only on the status it displays: the
\* operator view offers confirm exactly for pending and complete exactly for
\* confirmed, the user view offers cancel exactly for pending; so every confirm
\* call was made for a booking displayed as pending, every complete call for one
\* displayed as confirmed, every cancel call for one displayed as pending.
C13_ActionsByStatus ==
    /\ \A b \in Rows(dash.bookings) :
          /\ OperatorBookingActions(b) \subseteq {"confirm", "complete"}
          /\ "confirm" \in OperatorBookingActions(b) <=> b.status = "pending"
          /\ "complete" \in OperatorBookingActions(b) <=> b.status = "confirmed"
    /\ \A b \in Rows(uc.bookings) :
          /\ UserBookingActions(b) \subseteq {"cancel"}
          /\ "cancel" \in UserBookingActions(b) <=> b.status = "pending"
    /\ \A t \in DashTasks :
          /\ t.kind = "confirmBooking" =>
                (t.seen = "pending" /\ t.sent[1].url = MutationUrl("confirmBooking", t.arg))
          /\ t.kind = "completeBooking" =>
                (t.seen = "confirmed" /\ t.sent[1].url = MutationUrl("completeBooking", t.arg))
    /\ \A t \in UcTasks : t.kind = "cancelBooking" /\ t.seen = "pending"

C13_Witness ==
    /\ Shown = "OperatorDashboard"
    /\ \E t \in DashTasks :
          /\ t.kind = "completeBooking" /\ t.seen = "confirmed" /\ t.pc = "mutation"
          /\ \E b \in Rows(dash.bookings) : b.id = t.arg /\ b.status = "confirmed"
    /\ \E b \in Rows(dash.bookings) : b.status = "pending"

\* C14: a booking displayed as cancelled or completed offers no confirm, complete
\* or cancel in either view, and none of their handlers can be started for it.
C14_TerminalOffersNothing ==
    /\ \A b \in Rows(dash.bookings) :
          b.status \in {"cancelled", "completed"} =>
             /\ OperatorBookingActions(b) = {}
             /\ ~ENABLED HandleMutation("confirmBooking", b.id)
             /\ ~ENABLED HandleMutation("completeBooking", b.id)
    /\ \A b \in Rows(uc.bookings) :
          b.status \in {"cancelled", "completed"} =>
             /\ UserBookingActions(b) = {}
             /\ ~ENABLED HandleCancelBooking(b.id)

C14_Witness ==
    /\ Shown = "UserCenter"
    /\ uc.tabValue = 2
    /\ ~uc.loading
    /\ \E t \in UcTasks :
          /\ t.pc = "done" /\ t.raised = NoError
          /\ \E b \in Rows(uc.bookings) : b.id = t.arg /\ b.status = "cancelled"
    /\ \E b \in Rows(uc.bookings) : b.status = "completed"

\* C15: the user view's booking list changes only by a fetch response or by a
\* successful cancel, which changes nothing but the status of the cancelled
\* booking, to cancelled; a failed cancel leaves the list as it is; the operator
\* view's booking list changes only by a fetch response replacing it, and a
\* handler issues its refetch only in the step in which its mutating call
\* succeeds.
UcListByFetch ==
    \E f \in BagToSet(uc.fetches) :
        uc.fetches' = uc.fetches (-) One(f) /\ uc.bookings' = f.bookings
UcListByCancel ==
    \E t \in UcTasks :
        /\ t.pc = "mutation"
        /\ uc.tasks' = Swap(uc.tasks, t, [t EXCEPT !.pc = "done"])
        /\ server'.status[t.arg] = "cancelled"
        /\ uc.bookings' = CancelPatch(uc.bookings, t.arg)
UcCancelFailed ==
    \E t \in BagToSet(uc.tasks') : t.raised # NoError /\ CopiesIn(t, uc.tasks') > CopiesIn(t, uc.tasks)
DashListByFetch ==
    \E f \in BagToSet(dash.fetches) :
        dash.fetches' = dash.fetches (-) One(f) /\ dash.bookings' = f.bookings
DashRefetchAfterSuccess ==
    \A f \in BagToSet(dash.fetches') :
        (CopiesIn(f, dash.fetches') > CopiesIn(f, dash.fetches) /\ f.of # NoTask) =>
            \E t \in DashTasks :
                /\ t.pc = "mutation"
                /\ f.of = [t EXCEPT !.sent = Append(@, ApiRequest("GET", RefetchUrl(t.kind))),
                                    !.pc = "refetch"]
                /\ Accepts(server, t)
                /\ server' = Commit(server, t)
                /\ dash'.snackbar.message = SuccessMessage(t.kind)

C15_StatusWrites ==
    [][/\ uc.bookings' # uc.bookings => (UcListByFetch \/ UcListByCancel)
       /\ UcCancelFailed => uc.bookings' = uc.bookings
       /\ dash.bookings' # dash.bookings => DashListByFetch
       /\ DashRefetchAfterSuccess]_vars

\* C16: a handler has issued its refetch exactly when its mutating call has
\* succeeded (the backend then holds the mutation), and once the response of
\* that refetch has replaced the list the view never again shows the record as
\* it was before the mutation, whatever the order in which the responses of the
\* fetches in flight arrive.
C16_NoStaleAfterRefetch ==
    \A t \in DashTasks :
        /\ t.pc = "mutation" => Len(t.sent) = 1
        /\ (t.pc = "refetch" \/ (t.pc = "done" /\ t.raised = NoError)) =>
              /\ Len(t.sent) = 2
              /\ t.sent[2].url = RefetchUrl(t.kind)
              /\ IF t.kind = "deleteHotel" THEN t.arg \notin server.hotels
                 ELSE server.status[t.arg] # t.seen
        /\ (t.pc = "done" /\ t.applied) =>
              IF t.kind = "deleteHotel"
              THEN \A h \in Rows(dash.hotels) : h.id # t.arg
              ELSE \A b \in Rows(dash.bookings) : b.id = t.arg => b.status # t.seen

\* C20: on the operator dashboard the edit and delete buttons of a hotel are
\* enabled exactly when a session is present and the hotel's operatorId is the
\* session user's id, and a booking's confirm or complete button is offered only
\* to an operator session that owns the booking's hotel.
C20_OwnerOnly ==
    Shown = "OperatorDashboard" =>
        /\ \A h \in Rows(dash.hotels) :
              /\ HotelActions(h, user) =
                    (IF user # NoUser /\ h.operatorId = user.id
                     THEN {"edit", "delete"} ELSE {})
              /\ ENABLED HandleMutation("deleteHotel", h.id) =>
                    (user # NoUser /\ h.operatorId = user.id)
        /\ \A b \in Rows(dash.bookings) :
              OperatorBookingActions(b) # {} =>
                 (user # NoUser /\ user.role = "operator" /\ Owns(user, HotelOf(b.id)))

\* C17: with no session, pressing a favorite icon sends no request, leaves the
\* local favorites as they are and shows the notice "Please login first".
C17_ToggleNeedsSession ==
    [][user = NoUser =>
         /\ \A t \in BagToSet(home.tasks') :
               t.pc = "mutation" => CopiesIn(t, home.tasks') <= CopiesIn(t, home.tasks)
         /\ BagCardinality(home.fetches') <= BagCardinality(home.fetches)
         /\ net' = net
         /\ (/\ home' # home /\ home.tasks' = home.tasks /\ home.fetches' = home.fetches
             /\ home.hotelFetches' = home.hotelFetches) =>
               /\ home.snackbar' = [open |-> TRUE, message |-> "Please login first",
                                    severity |-> "error"]
               /\ home.favorites' = home.favorites
               /\ server' = server]_vars

C17_Witness ==
    /\ Shown = "Home"
    /\ user = NoUser
    /\ lastAuth.op = "logout"
    /\ home.snackbar = [open |-> TRUE, message |-> "Please login first", severity |-> "error"]
    /\ Len(home.favorites) = 2
    /\ \A t \in HomeTasks : t.pc = "done"

\* C18: with a session, pressing the favorite icon of h sends POST /favorites
\* when h is not among the local favorites and DELETE /favorites/h when it is;
\* the local favorites gain or lose exactly h, and only in the step in which that
\* call succeeds; when the call fails they stay as they are and an error notice
\* is shown.
ToggleSent(t) ==
    /\ t.pc = "mutation"
    /\ CopiesIn(t, home.tasks') > CopiesIn(t, home.tasks)
ToggleSucceeded(t) ==
    /\ t.pc = "mutation"
    /\ home.tasks' = Swap(home.tasks, t, [t EXCEPT !.pc = "done"])
ToggleFailed(t) ==
    /\ t.pc = "mutation"
    /\ \E e \in Errors : home.tasks' = Swap(home.tasks, t, [t EXCEPT !.raised = e, !.caught = e,
                                                                     !.pc = "done"])
FavoritesFetched ==
    \E f \in BagToSet(home.fetches) : home.fetches' = home.fetches (-) One(f)

C18_ToggleCalls ==
    [][/\ \A t \in BagToSet(home.tasks') : ToggleSent(t) =>
             /\ user # NoUser
             /\ Len(t.sent) = 1
             /\ Endpoint(t.sent[1]) =
                   (IF t.hotelId \in Rows(home.favorites)
                    THEN <<"DELETE", "/favorites/" \o ToString(t.hotelId)>>
                    ELSE <<"POST", "/favorites">>)
             /\ home.favorites' = home.favorites
       /\ \A t \in HomeTasks : ToggleSucceeded(t) =>
             Rows(home.favorites') =
                (IF t.sent[1].method = "POST" THEN Rows(home.favorites) \cup {t.hotelId}
                 ELSE Rows(home.favorites) \ {t.hotelId})
       /\ \A t \in HomeTasks : ToggleFailed(t) =>
             /\ home.favorites' = home.favorites
             /\ home.snackbar'.open /\ home.snackbar'.severity = "error"
       /\ home.favorites' # home.favorites =>
             (FavoritesFetched \/ \E t \in HomeTasks : ToggleSucceeded(t))]_vars

\* C19: two presses of the favorite icon of h whose calls both succeed leave h
\* among the local favorites exactly if it was among them before the first press,
\* also when the second press comes before the first call has resolved.
C19_ToggleTwice ==
    [][\A t1, t2 \in BagToSet(home.tasks') :
          (/\ t1.n = 0 /\ t2.n = 1
           /\ t1.hotelId = t2.hotelId
           /\ t1.pc = "done" /\ t1.raised = NoError
           /\ t2.pc = "done" /\ t2.raised = NoError
           /\ home.tasks' # home.tasks
           /\ t2.favorites \in {t1.favorites, Toggled(t1.favorites, t1.hotelId)}
           /\ \A t \in BagToSet(home.tasks') \ {t1, t2} : t.pc = "mutation" \/ t.raised # NoError)
          => (t1.hotelId \in Rows(home.favorites') <=> t1.hotelId \in Rows(t1.favorites))]_vars

\* C24: in the user view, once the cancel call for booking b has succeeded, b
\* is displayed as cancelled with no cancel button, and it stays so in every
\* later step that is not the arrival of a bookings fetch, also when several
\* cancel calls started from the same rendered list are in flight at once and
\* resolve in either order.
UcDisplayedCancelled(list, id) ==
    \E b \in Rows(list) : b.id = id /\ b.status = "cancelled" /\ "cancel" \notin UserBookingActions(b)
UcCancelSucceededFor(id) ==
    \E t \in UcTasks : t.arg = id /\ t.pc = "done" /\ t.raised = NoError
C24_CancelledStays ==
    [][\A id \in RecordIds :
          /\ (\E t \in BagToSet(uc.tasks') :
                  /\ t.arg = id /\ t.pc = "done" /\ t.raised = NoError
                  /\ CopiesIn(t, uc.tasks') > CopiesIn(t, uc.tasks))
                 => UcDisplayedCancelled(uc.bookings', id)
          /\ (UcCancelSucceededFor(id) /\ UcDisplayedCancelled(uc.bookings, id) /\ ~UcListByFetch)
                 => UcDisplayedCancelled(uc.bookings', id)]_vars

\* C25: in the listing view, when every favorite toggle has resolved, the
\* toggles having been on different hotels and pressed with no favorites fetch
\* in flight, the local favorites are those of the first press with every
\* successful add and every successful remove applied, they equal the
\* backend's favorites when the favorites fetch had succeeded, and no hotel id
\* is listed twice, whatever the order in which the calls resolved.
TogglesSettled ==
    /\ HomeTasks # {}
    /\ \A t \in HomeTasks : t.pc = "done" /\ t.fetching = 0 /\ CopiesIn(t, home.tasks) = 1
    /\ \A t1, t2 \in HomeTasks : t1 # t2 => t1.hotelId # t2.hotelId
ToggleOutcome ==
    LET first == CHOOSE t \in HomeTasks : t.n = 0
        ok == {t \in HomeTasks : t.raised = NoError}
        added == {t.hotelId : t \in {x \in ok : x.sent[1].method = "POST"}}
        removed == {t.hotelId : t \in {x \in ok : x.sent[1].method = "DELETE"}}
    IN (Rows(first.favorites) \cup added) \ removed
C25_FavoritesMatch ==
    TogglesSettled =>
        /\ Rows(home.favorites) = ToggleOutcome
        /\ home.console = NoError => Rows(home.favorites) = server.favorites
        /\ Len(home.favorites) = Cardinality(Rows(home.favorites))

\* C28: the favorites of the listing view belong to the current session: in
\* every state with no session the local favorites are empty, so that no hotel
\* is shown as favorited.
C28_FavoritesOfSession ==
    (Shown = "Home" /\ user = NoUser) =>
        /\ home.favorites = <<>>
        /\ \A h \in Rows(home.hotels) : ~Includes(home.favorites, h.id)

\* C29: in the listing view, once every fetchHotels call in flight has
\* resolved, the list on screen is the outcome of the most recently issued one
\* (its response, or the empty list when it failed) and loading is false,
\* whatever the order in which the responses of overlapping calls arrived.
C29_LatestSearchShown ==
    (home.hotelFetches = EmptyBag /\ home.answer.known) =>
        /\ home.hotels = home.answer.list
        /\ ~home.loading

\* C21: every failed request of a view is shown to the user: in the step in
\* which a call fails, the view's notification is open with severity error and
\* carries the server's message when the error has one, a fallback text
\* otherwise.
Notified(snackbar, error) ==
    /\ snackbar.open
    /\ snackbar.severity = "error"
    /\ snackbar.message = IF error.message # NoMessage THEN error.message ELSE snackbar.message
    /\ snackbar.message # ""
C21_FailuresNotified ==
    [][/\ home.console' # home.console => Notified(home.snackbar', home.console')
       /\ \A t \in BagToSet(home.tasks') :
             (t.raised # NoError /\ CopiesIn(t, home.tasks') > CopiesIn(t, home.tasks)) =>
                 Notified(home.snackbar', t.caught)]_vars

\* C23: a booking form whose check-out date is before its check-in date is
\* never sent: while the form holds such a pair no POST /bookings has been
\* issued, and once its submission was attempted the checkOutDate field shows
\* its error, for every pair of dates.
CheckOutBeforeCheckIn ==
    /\ detail.values.checkInDate # NoDate
    /\ detail.values.checkOutDate # NoDate
    /\ detail.values.checkOutDate < detail.values.checkInDate
C23_EarlierCheckOutRejected ==
    /\ \A t \in DetailTasks : ~(t.values.checkOutDate < t.values.checkInDate)
    /\ CheckOutBeforeCheckIn =>
          /\ detail.tasks = EmptyBag
          /\ detail.touched =>
                BookingErrors.checkOutDate = "Check-out date must be after check-in date"

C23_Witness ==
    /\ Shown = "HotelDetail"
    /\ detail.openBookingDialog
    /\ CheckOutBeforeCheckIn
    /\ detail.touched
    /\ BookingErrors.checkOutDate = "Check-out date must be after check-in date"
    /\ detail.tasks = EmptyBag

\* C30: a booking form whose check-out date equals its check-in date is
\* rejected like one whose check-out date is earlier: no POST /bookings is
\* issued for it and the checkOutDate field shows "Check-out date must be after
\* check-in date".
C30_SameDayRejected ==
    /\ \A t \in DetailTasks : t.values.checkOutDate > t.values.checkInDate
    /\ (detail.touched /\ detail.values.checkInDate # NoDate
        /\ detail.values.checkOutDate = detail.values.checkInDate) =>
           BookingErrors.checkOutDate = "Check-out date must be after check-in date"

\* C26: in the hotel detail view POST /bookings is issued only while a session
\* is present: the booking dialog opens only with a session, the book action
\* with no session navigates to /login and opens nothing, and a submission
\* sends its request only with a session, whatever happened to the session
\* while the dialog was open.
BookingSent ==
    \E t \in BagToSet(detail.tasks') :
        t.pc = "post" /\ CopiesIn(t, detail.tasks') > CopiesIn(t, detail.tasks)
C26_BookingNeedsSession ==
    [][/\ BookingSent => user # NoUser
       /\ (detail.openBookingDialog' /\ ~detail.openBookingDialog) => user # NoUser
       /\ (user = NoUser /\ BookOffered /\ path' # path) =>
             (path' = "/login" /\ ~detail.openBookingDialog')]_vars

\* C27: in the hotel detail view the last notification of a submission whose
\* POST /bookings succeeded is the success one, whatever the outcome of the
\* refetch of the hotel that follows; an error notification is the last one
\* only when the POST itself failed.
C27_FailureOnlyOfPost ==
    \A t \in DetailTasks :
        (t.pc = "done" /\ t.posted) => t.notice.severity = "success"

\* C22: a registration form with role operator and an empty registerCode is
\* rejected by the form's validation, with the error on the registerCode field,
\* and POST /auth/register is never issued for it; with role user the
\* registerCode is not required and the request carries registerCode = "".
CodeMissing == reg.values.role = "operator" /\ reg.values.registerCode = ""
OtherFieldsValid ==
    LET errors == RegisterValidation(reg.values)
    IN errors.email = "" /\ errors.password = "" /\ errors.confirmPassword = ""
C22_RegisterCode ==
    /\ \A t \in RegTasks :
          /\ t.values.role = "operator" => t.values.registerCode # "" 
          /\ t.values.role = "user" => t.body.registerCode = ""
    /\ CodeMissing =>
          /\ reg.tasks = EmptyBag
          /\ reg.touched => RegisterErrors.registerCode = "Register code is required for operators"
    /\ (reg.touched /\ reg.values.role = "user" /\ OtherFieldsValid) =>
          /\ RegisterErrors.registerCode = ""
          /\ \E t \in RegTasks : t.values = reg.values /\ t.body.registerCode = ""

C22_Witness ==
    /\ CodeMissing
    /\ OtherFieldsValid
    /\ reg.touched
    /\ RegisterErrors.registerCode = "Register code is required for operators"
    /\ reg.tasks = EmptyBag

============================================================================
